---- MODULE Spec2Model ----
(***************************************************************************)
(* ARQ-GENERATOR: the diagram synthesis-and-validation pipeline.           *)
(*                                                                         *)
(* A Python str is modelled as a sequence of one-character strings, so     *)
(* that every string operation of the source (strip, split, lower, in,   *)
(* the regular expressions) is computed character by character.            *)
(***************************************************************************)
EXTENDS Integers, Sequences, FiniteSets, TLC

VARIABLES
    pc,            \* position of the request handler, or of a function applied on its own
    service,       \* "ec2" (src/ec2-service/main.py) or "api" (src/api.py)
    tmp,           \* TRUE while the temporary checkout directory exists
    tree_txt,      \* the tree text of the scanned repository
    llm_output,    \* the text returned by the generation service
    mermaid_code,  \* the diagram text as it moves through the stages
    response,      \* what the caller receives: [status, detail, mermaid]
    stages,        \* the stages the request has gone through, in order
    history,       \* the successive values returned by a function applied on its own
    repo,          \* the checkout on disk: its directories as os.walk yields them
    walk,          \* the position of os.walk in repo
    structure      \* the structure dict of extract_repository_structure

vars == <<pc, service, tmp, tree_txt, llm_output, mermaid_code, response, stages, history,
          repo, walk, structure>>

(***************************************************************************)
(* String literals of the source.                                          *)
(***************************************************************************)
S_flowchart == <<"f", "l", "o", "w", "c", "h", "a", "r", "t">>
S_graph == <<"g", "r", "a", "p", "h">>
S_classdiagram == <<"c", "l", "a", "s", "s", "d", "i", "a", "g", "r", "a", "m">>
S_sequencediagram == <<"s", "e", "q", "u", "e", "n", "c", "e", "d", "i", "a", "g", "r", "a", "m">>
S_classDiagram == <<"c", "l", "a", "s", "s", "D", "i", "a", "g", "r", "a", "m">>
S_sequenceDiagram == <<"s", "e", "q", "u", "e", "n", "c", "e", "D", "i", "a", "g", "r", "a", "m">>
S_mermaid == <<"m", "e", "r", "m", "a", "i", "d">>
\* the grave accent (U+0060), which a TLA+ string literal cannot hold
BACKTICK == "grave"
S_fence == <<BACKTICK, BACKTICK, BACKTICK>>
S_flowchart_TD == <<"f", "l", "o", "w", "c", "h", "a", "r", "t", " ", "T", "D">>
S_TD == <<"T", "D">>
S_LR == <<"L", "R">>
S_BT == <<"B", "T">>
S_RL == <<"R", "L">>
S_arrow == <<"-", "-", ">">>
S_seq_arrow == <<"-", ">", ">">>
S_thin_arrow == <<"-", ">">>
S_line3 == <<"-", "-", "-">>
S_indent == <<" ", " ", " ", " ">>
S_nl == <<"\n">>
S_nlnl == <<"\n", "\n">>
\* "flowchart TD\n    A[Empty]"
S_empty_diagram == <<"f", "l", "o", "w", "c", "h", "a", "r", "t", " ", "T", "D", "\n", " ", " ", " ", " ", "A", "[", "E", "m", "p", "t", "y", "]">>
\* "flowchart TD\n    A[Repository]"
S_placeholder == <<"f", "l", "o", "w", "c", "h", "a", "r", "t", " ", "T", "D", "\n", " ", " ", " ", " ", "A", "[", "R", "e", "p", "o", "s", "i", "t", "o", "r", "y", "]">>
S_header_nl == <<"f", "l", "o", "w", "c", "h", "a", "r", "t", " ", "T", "D", "\n">>
S_node_prefix == <<" ", " ", " ", " ", "A">>

(***************************************************************************)
(* Python's str operations.                                                *)
(***************************************************************************)
UpperLetters == <<"A", "B", "C", "D", "E", "F", "G", "H", "I", "J", "K", "L", "M",
                  "N", "O", "P", "Q", "R", "S", "T", "U", "V", "W", "X", "Y", "Z">>
LowerLetters == <<"a", "b", "c", "d", "e", "f", "g", "h", "i", "j", "k", "l", "m",
                  "n", "o", "p", "q", "r", "s", "t", "u", "v", "w", "x", "y", "z">>
DigitChars == {"0", "1", "2", "3", "4", "5", "6", "7", "8", "9"}
UpperSet == {UpperLetters[i] : i \in 1..26}
LowerSet == {LowerLetters[i] : i \in 1..26}

\* str.isupper() of one character
isupper(c) == c \in UpperSet

\* a character of the regular expression class \w
IsWordChar(c) == c \in UpperSet \cup LowerSet \cup DigitChars \cup {"_"}

\* the characters str.strip() removes and \s matches
Whitespace == {" ", "\n", "\t", "\r"}
isspace(c) == c \in Whitespace

LowerChar(c) == IF c \in UpperSet THEN LowerLetters[CHOOSE i \in 1..26 : UpperLetters[i] = c] ELSE c
UpperChar(c) == IF c \in LowerSet THEN UpperLetters[CHOOSE i \in 1..26 : LowerLetters[i] = c] ELSE c

\* str.lower(), str.upper()
lower(s) == [i \in 1..Len(s) |-> LowerChar(s[i])]
upper(s) == [i \in 1..Len(s) |-> UpperChar(s[i])]

\* s[i:] with a 1-based i
From(s, i) == SubSeq(s, i, Len(s))

\* whether sub occurs in s at position i
MatchAt(s, sub, i) == /\ i >= 1
                      /\ i + Len(sub) - 1 <= Len(s)
                      /\ \A k \in 1..Len(sub) : s[i + k - 1] = sub[k]

\* str.find from position i: the least position >= i where sub occurs, 0 if none
RECURSIVE find(_, _, _)
find(s, sub, i) ==
    IF i + Len(sub) - 1 > Len(s) THEN 0
    ELSE IF MatchAt(s, sub, i) THEN i
    ELSE find(s, sub, i + 1)

\* the least position >= i of a character that is not whitespace, Len(s) + 1 if none
RECURSIVE SkipSpace(_, _)
SkipSpace(s, i) == IF i > Len(s) \/ ~isspace(s[i]) THEN i ELSE SkipSpace(s, i + 1)

\* the greatest position <= i of a character that is not in chars, 0 if none
RECURSIVE SkipBack(_, _, _)
SkipBack(s, chars, i) == IF i = 0 \/ s[i] \notin chars THEN i ELSE SkipBack(s, chars, i - 1)


\* sub in s
contains(s, sub) == sub = <<>> \/ find(s, sub, 1) > 0

\* c in s, for a character c
HasChar(s, c) == \E k \in 1..Len(s) : s[k] = c

startswith(s, prefix) == MatchAt(s, prefix, 1)
endswith(s, suffix) == Len(suffix) <= Len(s) /\ MatchAt(s, suffix, Len(s) - Len(suffix) + 1)

\* str.lstrip(), str.rstrip(), str.strip()
lstrip(s) == From(s, SkipSpace(s, 1))
rstrip(s) == SubSeq(s, 1, SkipBack(s, Whitespace, Len(s)))
strip(s) == lstrip(rstrip(s))

\* str.rstrip(chars): removes trailing characters that are in the SET of characters
rstrip_chars(s, chars) ==
    SubSeq(s, 1, SkipBack(s, {chars[i] : i \in 1..Len(chars)}, Len(s)))

\* str.split(c) for a one-character separator: always at least one part
RECURSIVE split(_, _)
split(s, c) ==
    LET k == find(s, <<c>>, 1)
    IN  IF k = 0 THEN <<s>>
        ELSE <<SubSeq(s, 1, k - 1)>> \o split(From(s, k + 1), c)

\* sep.join(parts)
RECURSIVE join(_, _)
join(parts, sep) ==
    IF Len(parts) = 0 THEN <<>>
    ELSE IF Len(parts) = 1 THEN parts[1]
    ELSE join(SubSeq(parts, 1, Len(parts) \div 2), sep) \o sep
         \o join(SubSeq(parts, (Len(parts) \div 2) + 1, Len(parts)), sep)

\* str.replace(old, new): every non-overlapping occurrence, left to right
RECURSIVE replace(_, _, _)
replace(s, old, new) ==
    LET k == find(s, old, 1)
    IN  IF k = 0 THEN s
        ELSE SubSeq(s, 1, k - 1) \o new \o replace(From(s, k + Len(old)), old, new)

(***************************************************************************)
(* fix_mermaid_syntax (src/ec2-service/main.py): the syntax normalizer.    *)
(* A result is [raised, value]: raised is TRUE when the Python code ends   *)
(* in an exception (IndexError) instead of returning.                      *)
(***************************************************************************)
Returned(v) == [raised |-> FALSE, value |-> v]
Raised == [raised |-> TRUE, value |-> <<>>]

\* line.lower().startswith(('flowchart', 'graph', 'classdiagram', 'sequencediagram'))
IsDeclarationLine(line) ==
    \E kw \in {S_flowchart, S_graph, S_classdiagram, S_sequencediagram} :
        startswith(lower(line), kw)

\* the line appended for a declaration line
FixDeclaration(line) ==
    IF ~startswith(lower(line), S_flowchart) THEN S_flowchart_TD
    ELSE IF /\ ~contains(upper(line), S_TD) /\ ~contains(upper(line), S_LR)
            /\ ~contains(upper(line), S_BT) /\ ~contains(upper(line), S_RL)
         THEN S_flowchart_TD
         ELSE line

\* the length of the match of (-+>|->|--) that starts at position i, 0 if none:
\* a run of '-' followed by '>', else two '-'
ArrowLenAt(s, i) ==
    IF i > Len(s) \/ s[i] # "-" THEN 0
    ELSE LET run == CHOOSE n \in 1..(Len(s) - i + 1) :
                        /\ \A k \in i..(i + n - 1) : s[k] = "-"
                        /\ (i + n > Len(s) \/ s[i + n] # "-")
         IN  IF i + run <= Len(s) /\ s[i + run] = ">" THEN run + 1
             ELSE IF run >= 2 THEN 2
             ELSE 0

\* the position of the leftmost match of (-+>|->|--) at or after position i, 0 if none
RECURSIVE FirstArrow(_, _)
FirstArrow(s, i) ==
    IF i > Len(s) THEN 0
    ELSE IF ArrowLenAt(s, i) > 0 THEN i
    ELSE FirstArrow(s, i + 1)

\* the first three items of re.split(r'(-+>|->|--)', line) when the first match is
\* at position a and n characters long, and the next match is at position b (0: none)
ArrowPartsAt(line, a, n, b) ==
    << SubSeq(line, 1, a - 1),
       SubSeq(line, a, a + n - 1),
       IF b = 0 THEN From(line, a + n) ELSE SubSeq(line, a + n, b - 1) >>

ArrowPartsFrom(line, a, n) == ArrowPartsAt(line, a, n, FirstArrow(line, a + n))

ArrowPartsFirst(line, a) ==
    IF a = 0 THEN <<>> ELSE ArrowPartsFrom(line, a, ArrowLenAt(line, a))

\* the first three items of re.split(r'(-+>|->|--)', line), <<>> when nothing matches
ArrowParts(line) == ArrowPartsFirst(line, FirstArrow(line, 1))

\* one side of an edge: an identifier without a label gets itself as its label;
\* side[0] of the source is side[1] here, and the caller excludes the empty side
FixEdgeSide(side) ==
    IF ~startswith(side, <<"[">>) /\ ~isupper(side[1])
    THEN IF HasChar(side, "[") THEN side ELSE side \o <<"[">> \o side \o <<"]">>
    ELSE side

\* the rewritten edge line; left[0] or right[0] of an empty side raises IndexError
FixEdgeSides(left, right) ==
    IF left = <<>> \/ right = <<>> THEN Raised
    ELSE Returned(S_indent \o FixEdgeSide(left) \o S_arrow \o FixEdgeSide(right))

FixEdgeParts(line, parts) ==
    IF Len(parts) < 3 THEN Returned(line)
    ELSE FixEdgeSides(strip(parts[1]), strip(parts[3]))

\* the edge branch
FixEdgeLine(line) == FixEdgeParts(line, ArrowParts(line))

\* the missing bracket of a node line
FixBrackets(line) ==
    IF HasChar(line, "[") /\ ~HasChar(line, "]") THEN line \o <<"]">>
    ELSE IF HasChar(line, "]") /\ ~HasChar(line, "[") THEN <<"[">> \o line
    ELSE line

\* the node branch: indentation and the missing bracket
FixNodeLine(line) ==
    FixBrackets(IF ~startswith(line, S_indent) THEN S_indent \o lstrip(line) ELSE line)

\* a line after the replacement of '->>': the edge branch, the node branch, or as is
FixBranches(line) ==
    IF contains(line, S_thin_arrow) \/ contains(line, S_arrow) \/ contains(line, S_line3)
    THEN FixEdgeLine(line)
    ELSE IF \E c \in {"[", "]", "(", ")", "{", "}"} : HasChar(line, c)
    THEN Returned(FixNodeLine(line))
    ELSE Returned(line)

\* a line that is not blank and is no declaration: [raised, value]
FixBodyLine(stripped) ==
    FixBranches(IF contains(stripped, S_seq_arrow)
                THEN replace(stripped, S_seq_arrow, S_arrow)
                ELSE stripped)

\* fixed_lines.append(line), or the exception
AppendFixed(acc, r) ==
    IF r.raised THEN [acc EXCEPT !.raised = TRUE]
    ELSE [acc EXCEPT !.fixed_lines = Append(@, r.value)]

\* one iteration of the loop, for the stripped line
FixLine(acc, line) ==
    IF line = <<>> THEN acc
    ELSE IF IsDeclarationLine(line)
    THEN [acc EXCEPT !.fixed_lines = Append(@, FixDeclaration(line)),
                     !.has_declaration = TRUE]
    ELSE AppendFixed(acc, FixBodyLine(line))

\* the loop over the lines: [fixed_lines, has_declaration, raised]
RECURSIVE FixLines(_, _)
FixLines(lines, acc) ==
    IF Len(lines) = 0 \/ acc.raised THEN acc
    ELSE FixLines(Tail(lines), FixLine(acc, strip(Head(lines))))

\* re.search(r'\[.*?\]|\(.*?\)|\{.*?\}', result): an opening bracket and, later on
\* the same line ('.' does not match a newline), its closing bracket
HasNodeSyntax(result) ==
    \E i \in 1..Len(result) :
        /\ result[i] \in {"[", "(", "{"}
        /\ LET j  == find(result, <<IF result[i] = "[" THEN "]"
                                    ELSE IF result[i] = "(" THEN ")" ELSE "}">>, i + 1)
               nl == find(result, S_nl, i + 1)
           IN  j > 0 /\ (nl = 0 \/ j < nl)

\* the final validation: a result without node syntax becomes the placeholder
FinalValidation(result) ==
    IF ~HasNodeSyntax(result) THEN Returned(S_placeholder) ELSE Returned(result)

\* after the loop: the declaration is inserted if none was seen, the lines are joined
FixEnd(acc) ==
    IF acc.raised THEN Raised
    ELSE FinalValidation(join(IF ~acc.has_declaration
                              THEN <<S_flowchart_TD>> \o acc.fixed_lines
                              ELSE acc.fixed_lines, S_nl))

fix_mermaid_syntax(code) ==
    IF code = <<>> THEN Returned(S_empty_diagram)
    ELSE FixEnd(FixLines(split(code, "\n"),
                         [fixed_lines |-> <<>>, has_declaration |-> FALSE, raised |-> FALSE]))

(***************************************************************************)
(* validate_mermaid_nodes (src/ec2-service/main.py): the node validator.   *)
(***************************************************************************)
S_ext_md == <<".", "m", "d">>
S_ext_xml == <<".", "x", "m", "l">>
S_ext_json == <<".", "j", "s", "o", "n">>

forbidden_words ==
  << <<"a", "p", "i", " ", "g", "a", "t", "e", "w", "a", "y">>,
     <<"g", "a", "t", "e", "w", "a", "y">>,
     <<"a", "w", "s", " ", "l", "a", "m", "b", "d", "a">>,
     <<"l", "a", "m", "b", "d", "a">>,
     <<"s", "e", "r", "v", "e", "r", "l", "e", "s", "s">>,
     <<"b", "a", "c", "k", "e", "n", "d">>,
     <<"b", "a", "c", "k", "-", "e", "n", "d">>,
     <<"b", "a", "c", "k", " ", "e", "n", "d">>,
     <<"f", "r", "o", "n", "t", "e", "n", "d">>,
     <<"f", "r", "o", "n", "t", "-", "e", "n", "d">>,
     <<"f", "r", "o", "n", "t", " ", "e", "n", "d">>,
     <<"d", "a", "t", "a", "b", "a", "s", "e">>,
     <<"d", "b">>,
     <<"p", "o", "s", "t", "g", "r", "e", "s", "q", "l">>,
     <<"m", "y", "s", "q", "l">>,
     <<"m", "o", "n", "g", "o", "d", "b">>,
     <<"r", "e", "d", "i", "s">>,
     <<"s", "e", "r", "v", "e", "r">>,
     <<"a", "p", "i">>,
     <<"r", "e", "s", "t", " ", "a", "p", "i">>,
     <<"g", "r", "a", "p", "h", "q", "l">>,
     <<"m", "i", "c", "r", "o", "s", "e", "r", "v", "i", "c", "e">> >>

\* any(fw in line_lower for fw in forbidden_words)
HasForbidden(line) ==
    LET line_lower == lower(line)
    IN  \E w \in 1..Len(forbidden_words) : contains(line_lower, forbidden_words[w])

\* part.strip().rstrip('/').rstrip('.md').rstrip('.xml').rstrip('.json')
CleanPart(part) ==
    rstrip_chars(rstrip_chars(rstrip_chars(rstrip_chars(strip(part), <<"/">>),
                                           S_ext_md), S_ext_xml), S_ext_json)

\* the items one line of the tree text adds to structure_items
LineItems(raw) ==
    LET line == strip(raw)
    IN  IF line = <<>> \/ startswith(line, <<".">>) THEN {}
        ELSE LET parts == split(line, "/")
             IN  {lower(CleanPart(parts[i])) :
                    i \in {k \in 1..Len(parts) : CleanPart(parts[k]) \notin {<<>>, <<".">>}}}

\* structure_items: the ground-truth tokens of a tree text
structure_items(tree) ==
    LET lines == split(tree, "\n")
    IN  UNION {LineItems(lines[i]) : i \in 1..Len(lines)}

\* the closing bracket that goes with an opening one
Closing(c) == IF c = "[" THEN "]" ELSE IF c = "(" THEN ")" ELSE "}"

\* the position of the closing bracket of \[([^\]]+)\] (and of the ( ) and { } forms)
\* for an opening bracket at i: the first closing bracket after i, at least one
\* character later; 0 if the alternative does not match at i
BracketEnd(s, i) ==
    IF s[i] \notin {"[", "(", "{"} THEN 0
    ELSE LET j == find(s, <<Closing(s[i])>>, i + 1)
         IN  IF j >= i + 2 THEN j ELSE 0

\* the last position of ([A-Z]\w+) in ([A-Z]\w+)\[ for a match starting at i, 0 if none
WordEnd(s, i) ==
    IF ~(s[i] \in UpperSet /\ i + 1 <= Len(s) /\ IsWordChar(s[i + 1])) THEN 0
    ELSE LET e == CHOOSE e \in (i + 1)..Len(s) :
                      /\ \A k \in (i + 1)..e : IsWordChar(s[k])
                      /\ (e = Len(s) \/ ~IsWordChar(s[e + 1]))
         IN  IF e + 1 <= Len(s) /\ s[e + 1] = "[" THEN e ELSE 0

\* re.search(node_pattern, line) from position i on: [found, node] with node the
\* group that matched at the leftmost position
RECURSIVE NodeFrom(_, _)
NodeFrom(line, i) ==
    IF i > Len(line) THEN [found |-> FALSE, node |-> <<>>]
    ELSE IF BracketEnd(line, i) > 0
    THEN [found |-> TRUE, node |-> SubSeq(line, i + 1, BracketEnd(line, i) - 1)]
    ELSE IF WordEnd(line, i) > 0
    THEN [found |-> TRUE, node |-> SubSeq(line, i, WordEnd(line, i))]
    ELSE NodeFrom(line, i + 1)

NodeSearch(line) == NodeFrom(line, 1)

\* s.replace(' ', '').replace('-', '').replace('_', '')
RemoveSeparators(s) == SelectSeq(s, LAMBDA c : c \notin {" ", "-", "_"})

\* the flexible search of the node in structure_items
NodeExists(node, items) ==
    \E item \in items :
        \/ contains(item, node)
        \/ contains(node, item)
        \/ contains(RemoveSeparators(item), RemoveSeparators(node))

\* the line has a node: kept unless it has a forbidden word or the node is unknown
KeepNode(line, node, items) ==
    ~HasForbidden(line) /\ (NodeExists(node, items) \/ node = <<>>)

KeepMatched(line, m, items) ==
    IF m.found THEN KeepNode(line, lower(strip(m.node)), items)
    ELSE contains(line, S_arrow) \/ contains(line, S_line3)

\* whether the loop keeps a line of the diagram
KeepLine(line, items) ==
    IF \E kw \in {S_flowchart, S_graph} : startswith(strip(lower(line)), kw) THEN TRUE
    ELSE KeepMatched(line, NodeSearch(line), items)

\* valid_lines
ValidLines(code, items) ==
    SelectSeq(split(code, "\n"), LAMBDA line : KeepLine(line, items))

MaxRealItems == 10
MinValidLines == 3

\* str(i) for the index of a fallback node (real_items holds at most 10 items)
DecimalDigits == <<"0", "1", "2", "3", "4", "5", "6", "7", "8", "9">>

\* the lines "    A{i}[{item}]\n" for the items from index i (0-based) on
RECURSIVE SimpleNodes(_, _)
SimpleNodes(real_items, i) ==
    IF i >= Len(real_items) THEN <<>>
    ELSE S_node_prefix \o <<DecimalDigits[i + 1]>> \o <<"[">> \o real_items[i + 1] \o <<"]", "\n">>
         \o SimpleNodes(real_items, i + 1)

\* the end of the function: the fallback diagram when fewer than 3 lines are left
\* and the tree has items, else the lines that are left
ValidateEnd(valid_lines, real_items) ==
    IF Len(valid_lines) < MinValidLines /\ Len(real_items) > 0
    THEN S_header_nl \o SimpleNodes(real_items, 0)
    ELSE join(valid_lines, S_nl)

\* items_order is list(structure_items): the set in the iteration order of the run
validate_mermaid_nodes(code, tree, items_order) ==
    ValidateEnd(ValidLines(code, structure_items(tree)),
                SubSeq(items_order, 1, IF Len(items_order) < MaxRealItems
                                       THEN Len(items_order) ELSE MaxRealItems))

\* the orders in which list(structure_items) can enumerate the set
ItemOrders(tree) ==
    LET items == structure_items(tree)
    IN  {f \in [1..Cardinality(items) -> items] :
            \A i, j \in 1..Cardinality(items) : i # j => f[i] # f[j]}

(***************************************************************************)
(* extract_mermaid_code: the diagram extractor, in its two variants        *)
(* (src/ec2-service/main.py and src/processor.py).  All patterns are       *)
(* searched with re.DOTALL | re.IGNORECASE.                                *)
(***************************************************************************)
NoMatch == [found |-> FALSE, group |-> <<>>]

\* the greatest position k in p..q with text[k] a newline, 0 if none
RECURSIVE LastNewline(_, _, _)
LastNewline(text, p, q) ==
    IF q < p THEN 0 ELSE IF text[q] = "\n" THEN q ELSE LastNewline(text, p, q - 1)

\* the position after the match of \s*\n that starts at position p: \s* is greedy
\* and gives back up to the last newline of the run of whitespace; 0 if no match
AfterSpaceNewline(text, p) ==
    LET n == LastNewline(text, p, SkipSpace(text, p) - 1)
    IN  IF n = 0 THEN 0 ELSE n + 1

\* the least position e >= g where one of the stop strings occurs, Len(text) + 1
\* (the \Z of the pattern) when there is none
StopAt(text, g, stops) ==
    LET hits == {find(text, st, g) : st \in stops} \ {0}
    IN  IF hits = {} THEN Len(text) + 1
        ELSE CHOOSE k \in hits : \A j \in hits : k <= j

\* re.search(opener + r"\s*\n(.*?)```", text) from position i on: the leftmost
\* match; low is text.lower() (re.IGNORECASE)
RECURSIVE FencedFrom(_, _, _, _)
FencedFrom(text, low, opener, i) ==
    LET a == find(low, opener, i)
    IN  IF a = 0 THEN NoMatch
        ELSE LET g == AfterSpaceNewline(text, a + Len(opener))
                 c == IF g > 0 THEN find(text, S_fence, g) ELSE 0
             IN  IF c > 0 THEN [found |-> TRUE, group |-> SubSeq(text, g, c - 1)]
                 ELSE FencedFrom(text, low, opener, a + 1)

FencedSearch(text, opener) == FencedFrom(text, lower(text), opener, 1)

\* re.search(r"mermaid\s*\n(.*?)(?:\n\n|\Z)", text) from position i on
RECURSIVE TagFrom(_, _, _)
TagFrom(text, low, i) ==
    LET a == find(low, S_mermaid, i)
    IN  IF a = 0 THEN NoMatch
        ELSE LET g == AfterSpaceNewline(text, a + Len(S_mermaid))
             IN  IF g > 0
                 THEN [found |-> TRUE, group |-> SubSeq(text, g, StopAt(text, g, {S_nlnl}) - 1)]
                 ELSE TagFrom(text, low, a + 1)

TagSearch(text) == TagFrom(text, lower(text), 1)

\* re.search(keyword + r"\s+TD\s*\n(.*?)(?=\n\n|\Z|```)", text) from position i on
RECURSIVE HeaderFrom(_, _, _, _)
HeaderFrom(text, low, keyword, i) ==
    LET a == find(low, keyword, i)
    IN  IF a = 0 THEN NoMatch
        ELSE LET p == a + Len(keyword)
                 q == SkipSpace(text, p)
                 g == IF q > p /\ MatchAt(low, lower(S_TD), q)
                      THEN AfterSpaceNewline(text, q + Len(S_TD))
                      ELSE 0
             IN  IF g > 0
                 THEN [found |-> TRUE,
                       group |-> SubSeq(text, g, StopAt(text, g, {S_nlnl, S_fence}) - 1)]
                 ELSE HeaderFrom(text, low, keyword, a + 1)

HeaderSearch(text, keyword) == HeaderFrom(text, lower(text), keyword, 1)

\* any(keyword in s for keyword in keywords), s already lowercased by the caller
HasKeyword(s, keywords) == \E kw \in keywords : contains(s, kw)

\* the group as matched, without the strip
StrippedGroup_untrimmed(m) == m.group

\* match.group(1).strip()
StrippedGroup(m) == strip(m.group)

\* the loop over the patterns: the first match whose stripped group holds a keyword
RECURSIVE FirstPattern(_, _)
FirstPattern(matches, keywords) ==
    IF Len(matches) = 0 THEN NoMatch
    ELSE IF Head(matches).found /\ HasKeyword(lower(StrippedGroup(Head(matches))), keywords)
    THEN [found |-> TRUE, group |-> StrippedGroup(Head(matches))]
    ELSE FirstPattern(Tail(matches), keywords)

Ec2Keywords == {S_graph, S_flowchart, S_classDiagram, S_sequenceDiagram}
ProcessorKeywords == {S_graph, S_flowchart}

\* the line scan of src/ec2-service/main.py: [mermaid_lines, in_mermaid, stop]
RECURSIVE Ec2Scan(_, _)
Ec2Scan(lines, acc) ==
    IF Len(lines) = 0 \/ acc.stop THEN acc.mermaid_lines
    ELSE LET line == Head(lines)
             inm  == acc.in_mermaid \/ HasKeyword(strip(lower(line)), Ec2Keywords)
         IN  IF ~inm THEN Ec2Scan(Tail(lines), acc)
             ELSE LET ml == Append(acc.mermaid_lines, line)
                  IN  Ec2Scan(Tail(lines),
                              [mermaid_lines |-> ml, in_mermaid |-> TRUE,
                               stop |-> endswith(strip(line), <<";">>) /\ Len(ml) > 3])

\* the end of extract_mermaid_code: the pattern's group, else the scanned lines,
\* else the whole text
ExtractEnd(text, m, mermaid_lines) ==
    IF m.found THEN m.group
    ELSE IF Len(mermaid_lines) > 0 THEN join(mermaid_lines, S_nl)
    ELSE strip(text)

\* extract_mermaid_code of src/ec2-service/main.py
extract_mermaid_code(text) ==
    ExtractEnd(text,
               FirstPattern(<< FencedSearch(text, S_fence \o S_mermaid),
                               FencedSearch(text, S_fence),
                               TagSearch(text) >>, Ec2Keywords),
               Ec2Scan(split(text, "\n"),
                       [mermaid_lines |-> <<>>, in_mermaid |-> FALSE, stop |-> FALSE]))

\* the line scan of src/processor.py
RECURSIVE ProcessorScan(_, _)
ProcessorScan(lines, acc) ==
    IF Len(lines) = 0 \/ acc.stop THEN acc.mermaid_lines
    ELSE LET line_stripped == strip(Head(lines))
         IN  IF HasKeyword(lower(line_stripped), ProcessorKeywords)
             THEN ProcessorScan(Tail(lines),
                                [acc EXCEPT !.in_mermaid = TRUE,
                                            !.mermaid_lines = Append(@, line_stripped)])
             ELSE IF acc.in_mermaid
             THEN IF line_stripped # <<>>
                  THEN ProcessorScan(Tail(lines),
                                     [acc EXCEPT !.mermaid_lines = Append(@, line_stripped)])
                  ELSE IF Len(acc.mermaid_lines) > 2
                  THEN ProcessorScan(Tail(lines), [acc EXCEPT !.stop = TRUE])
                  ELSE ProcessorScan(Tail(lines), acc)
             ELSE ProcessorScan(Tail(lines), acc)

\* extract_mermaid_code of src/processor.py
processor_extract_mermaid_code(text) ==
    ExtractEnd(text,
               FirstPattern(<< FencedSearch(text, S_fence \o S_mermaid),
                               FencedSearch(text, S_fence),
                               HeaderSearch(text, S_flowchart),
                               HeaderSearch(text, S_graph) >>, ProcessorKeywords),
               ProcessorScan(split(text, "\n"),
                             [mermaid_lines |-> <<>>, in_mermaid |-> FALSE, stop |-> FALSE]))

(***************************************************************************)
(* The inputs of a request: the checkout and the generation service's text.*)
(***************************************************************************)
\* the lines a generator text is made of: a text is a selection of these lines, in
\* this order, bare or inside a fenced block
DiagramScript ==
  << <<"f", "l", "o", "w", "c", "h", "a", "r", "t", " ", "T", "D">>,   \* 'flowchart TD'
     <<" ", " ", " ", " ", "A", "[", "d", "r", "i", "v", "e", "r", "s", "]">>,   \* '    A[drivers]'
     <<" ", " ", " ", " ", "B", "[", "p", "a", "y", "m", "e", "n", "t", "s", "]">>,   \* '    B[payments]'
     <<" ", " ", " ", " ", "C", "[", "p", "o", "m", ".", "x", "m", "l", "]">>,   \* '    C[pom.xml]'
     <<" ", " ", " ", " ", "D", "[", "D", "a", "t", "a", "b", "a", "s", "e", "]">>,   \* '    D[Database]'
     <<" ", " ", " ", " ", "A", " ", "-", "-", ">", " ", "D">>,   \* '    A --> D'
     <<"-", "-", ">", " ", "B">>,   \* '--> B'
     <<"g", "r", "a", "p", "h", " ", "L", "R">> >>   \* 'graph LR'

\* the top-level entries a checkout is made of: the files in sorted order, then
\* the directories
TreeEntries ==
  << <<"R", "E", "A", "D", "M", "E", ".", "m", "d">>,   \* 'README.md'
     <<"p", "o", "m", ".", "x", "m", "l">>,   \* 'pom.xml'
     <<"d", "r", "i", "v", "e", "r", "s", "/">>,   \* 'drivers/'
     <<"p", "a", "y", "m", "e", "n", "t", "s", "/">> >>   \* 'payments/'

S_open_fence == <<BACKTICK, BACKTICK, BACKTICK, "m", "e", "r", "m", "a", "i", "d", "\n">>
S_close_fence == <<"\n", BACKTICK, BACKTICK, BACKTICK>>
S_two_spaces == <<" ", " ">>

\* the most lines of DiagramScript in one generator text
MaxLines == 6
\* the most entries of TreeEntries in one checkout
MaxTreeEntries == 3

\* the items of script at the positions in chosen, in the order of script
RECURSIVE Selection(_, _, _)
Selection(script, chosen, i) ==
    IF i > Len(script) THEN <<>>
    ELSE (IF i \in chosen THEN <<script[i]>> ELSE <<>>) \o Selection(script, chosen, i + 1)

Selections(script, max) ==
    {Selection(script, chosen, 1) :
        chosen \in {c \in SUBSET (1..Len(script)) : Cardinality(c) <= max}}

\* the texts the generation service can return
GeneratorTexts ==
    LET bodies == {join(sel, S_nl) : sel \in Selections(DiagramScript, MaxLines)}
    IN  bodies \cup {S_open_fence \o b \o S_close_fence : b \in bodies}

\* the checkouts: the entries at depth 1 (no nested files), as os.walk lists them
Checkouts == Selections(TreeEntries, MaxTreeEntries)

\* repo_tree_text (src/ec2-service/main.py) of such a checkout: the "." line, then
\* one line per entry with the indentation of depth 1
repo_tree_text(entries) ==
    join(<<<<".">>>> \o [i \in 1..Len(entries) |-> S_two_spaces \o entries[i]], S_nl)

\* structure["tree"] of extract_repository_structure (src/extractor.py) of such a
\* checkout: the same lines without the "." line
structure_tree(entries) ==
    join([i \in 1..Len(entries) |-> S_two_spaces \o entries[i]], S_nl)

\* the structure dict before extract_repository_structure runs (src/extractor.py),
\* with the locals lines and modules (module_set) of the function next to it;
\* dependencies, endpoints and technologies are not read by any stage modelled here
NoStructure ==
    [tree |-> <<>>, modules |-> <<>>, key_files |-> <<>>, config_files |-> <<>>,
     lines |-> <<>>, module_set |-> {}]

(***************************************************************************)
(* The analyze request of the two services.                                *)
(***************************************************************************)
\* the response of a request: none yet, an HTTPException with its status code and
\* the kind of its detail, or the JSON body with the diagram
NoResponse == [status |-> 0, detail |-> "", mermaid |-> <<>>]
HTTPException(status_code, detail) ==
    [status |-> status_code, detail |-> detail, mermaid |-> <<>>]
Success(diagram) == [status |-> 200, detail |-> "", mermaid |-> diagram]

Init ==
    /\ pc = "start"
    /\ service \in {"ec2", "api"}
    /\ tmp = FALSE
    /\ tree_txt = <<>>
    /\ llm_output = <<>>
    /\ mermaid_code = <<>>
    /\ response = NoResponse
    /\ stages = <<>>
    /\ history = <<>>
    /\ repo = <<>>
    /\ walk = 0
    /\ structure = NoStructure

\* validate_repo_url: a rejected URL raises before the directory is created
ValidateUrl ==
    /\ pc = "start"
    /\ \E valid \in BOOLEAN :
        IF valid THEN pc' = "mkdtemp" /\ response' = response
        ELSE pc' = "done" /\ response' = HTTPException(400, "URL de repositorio invalida")
    /\ UNCHANGED <<service, tmp, tree_txt, llm_output, mermaid_code, stages, history,
                 repo, walk, structure>>

\* tempfile.mkdtemp
Mkdtemp ==
    /\ pc = "mkdtemp"
    /\ tmp' = TRUE
    /\ pc' = "clone"
    /\ UNCHANGED <<service, tree_txt, llm_output, mermaid_code, response, stages, history,
                 repo, walk, structure>>

\* Repo.clone_from: a failure is reported as HTTP 400
Clone ==
    /\ pc = "clone"
    /\ \E cloned \in BOOLEAN :
        IF cloned THEN pc' = "size" /\ response' = response
        ELSE pc' = "finally" /\ response' = HTTPException(400, "Error al clonar repositorio")
    /\ UNCHANGED <<service, tmp, tree_txt, llm_output, mermaid_code, stages, history,
                 repo, walk, structure>>

\* the size ceiling MAX_REPO_SIZE_MB
CheckSize ==
    /\ pc = "size"
    /\ \E too_large \in BOOLEAN :
        IF too_large THEN pc' = "finally"
                          /\ response' = HTTPException(400, "Repositorio demasiado grande")
        ELSE pc' = "scan" /\ response' = response
    /\ UNCHANGED <<service, tmp, tree_txt, llm_output, mermaid_code, stages, history,
                 repo, walk, structure>>

\* repo_tree_text (ec2) or extract_repository_structure (api) of the checkout
Scan ==
    /\ pc = "scan"
    /\ \E entries \in Checkouts :
        tree_txt' = IF service = "ec2" THEN repo_tree_text(entries) ELSE structure_tree(entries)
    /\ pc' = "generate"
    /\ stages' = Append(stages, "scan")
    /\ UNCHANGED <<service, tmp, llm_output, mermaid_code, response, history,
                 repo, walk, structure>>

\* call_ollama returns the generator's text
CallOllama ==
    /\ pc = "generate"
    /\ \E text \in GeneratorTexts : llm_output' = text
    /\ pc' = "extract"
    /\ stages' = Append(stages, "generate")
    /\ UNCHANGED <<service, tmp, tree_txt, mermaid_code, response, history,
                 repo, walk, structure>>

\* call_ollama raises HTTPException: service unavailable (503) or timeout (504)
CallOllamaFails ==
    /\ pc = "generate"
    /\ \E code \in {503, 504} : response' = HTTPException(code, "Ollama")
    /\ pc' = "finally"
    /\ stages' = Append(stages, "generate")
    /\ UNCHANGED <<service, tmp, tree_txt, llm_output, mermaid_code, history,
                 repo, walk, structure>>

\* ec2-service: extract_mermaid_code, then the check for an empty result
Ec2Extract ==
    /\ pc = "extract" /\ service = "ec2"
    /\ mermaid_code' = extract_mermaid_code(llm_output)
    /\ IF mermaid_code' = <<>>
       THEN pc' = "finally"
            /\ response' = HTTPException(500, "No se pudo generar un diagrama Mermaid valido")
       ELSE pc' = "fix" /\ response' = response
    /\ stages' = Append(stages, "extract")
    /\ UNCHANGED <<service, tmp, tree_txt, llm_output, history,
                 repo, walk, structure>>

\* ec2-service: fix_mermaid_syntax, before and after the validation; an exception
\* is caught by `except Exception` and reported as HTTP 500
Ec2FixEnd(r) ==
    IF r.raised
    THEN /\ pc' = "finally" /\ response' = HTTPException(500, "Error interno")
         /\ mermaid_code' = mermaid_code
    ELSE /\ pc' = (IF pc = "fix" THEN "validate" ELSE "return")
         /\ response' = response
         /\ mermaid_code' = r.value

Ec2Fix ==
    /\ pc \in {"fix", "fix_again"} /\ service = "ec2"
    /\ Ec2FixEnd(fix_mermaid_syntax(mermaid_code))
    /\ stages' = Append(stages, "fix")
    /\ UNCHANGED <<service, tmp, tree_txt, llm_output, history,
                 repo, walk, structure>>

\* ec2-service: validate_mermaid_nodes against the tree text
Ec2Validate ==
    /\ pc = "validate" /\ service = "ec2"
    /\ \E items_order \in ItemOrders(tree_txt) :
        mermaid_code' = validate_mermaid_nodes(mermaid_code, tree_txt, items_order)
    /\ pc' = "fix_again"
    /\ stages' = Append(stages, "validate")
    /\ UNCHANGED <<service, tmp, tree_txt, llm_output, response, history,
                 repo, walk, structure>>

\* api: the end of generate_mermaid_diagram (src/processor.py): extraction, then
\* the header is put in front unless the text starts with 'flowchart' or 'graph'
PrependHeader(code) ==
    IF ~\E kw \in {S_flowchart, S_graph} : startswith(strip(code), kw)
    THEN S_header_nl \o code
    ELSE code

ApiExtract ==
    /\ pc = "extract" /\ service = "api"
    /\ mermaid_code' = PrependHeader(processor_extract_mermaid_code(llm_output))
    /\ pc' = "return"
    /\ stages' = Append(stages, "extract")
    /\ UNCHANGED <<service, tmp, tree_txt, llm_output, response, history,
                 repo, walk, structure>>

\* the successful return of analyze
Return ==
    /\ pc = "return"
    /\ response' = Success(mermaid_code)
    /\ pc' = "finally"
    /\ UNCHANGED <<service, tmp, tree_txt, llm_output, mermaid_code, stages, history,
                 repo, walk, structure>>

\* a finally clause that leaves the directory in place
Cleanup_noRemove ==
    /\ pc = "finally"
    /\ tmp' = tmp
    /\ pc' = "done"
    /\ UNCHANGED <<service, tree_txt, llm_output, mermaid_code, response, stages, history,
                 repo, walk, structure>>

\* the finally clause: shutil.rmtree(tmp); an error it raises is swallowed, so the
\* response decided before it is the one the request ends with
Cleanup ==
    /\ pc = "finally"
    /\ tmp' = FALSE
    /\ pc' = "done"
    /\ UNCHANGED <<service, tree_txt, llm_output, mermaid_code, response, stages, history,
                 repo, walk, structure>>

Next ==
    \/ ValidateUrl \/ Mkdtemp \/ Clone \/ CheckSize \/ Scan
    \/ CallOllama \/ CallOllamaFails
    \/ Ec2Extract \/ Ec2Fix \/ Ec2Validate \/ ApiExtract
    \/ Return \/ Cleanup

Spec == Init /\ [][Next]_vars

(***************************************************************************)
(* fix_mermaid_syntax on its own: applied to a text, then to its result.   *)
(***************************************************************************)
\* the lines a text given to fix_mermaid_syntax is made of
NormalizerScript ==
  << <<"f", "l", "o", "w", "c", "h", "a", "r", "t">>,   \* 'flowchart'
     <<"a", "]">>,   \* 'a]'
     <<"A", " ", "-", "-", ">", " ", "B">>,   \* 'A --> B'
     <<"x", "[", "y">>,   \* 'x[y'
     <<" ", " ", " ", " ", "A", "[", "d", "r", "i", "v", "e", "r", "s", "]">>,   \* '    A[drivers]'
     <<"a", "-", ">", ">", "b">>,   \* 'a->>b'
     <<"A", " ", "-", "-", ">">>,   \* 'A -->'
     <<"g", "r", "a", "p", "h", " ", "L", "R">> >>   \* 'graph LR'

\* the most lines of NormalizerScript in one text
MaxNormalizerLines == 3

NormalizerTexts ==
    {join(sel, S_nl) : sel \in Selections(NormalizerScript, MaxNormalizerLines)}

InitNormalizer ==
    /\ pc = "input"
    /\ mermaid_code \in NormalizerTexts
    /\ service = "ec2"
    /\ tmp = FALSE
    /\ tree_txt = <<>>
    /\ llm_output = <<>>
    /\ response = NoResponse
    /\ stages = <<>>
    /\ history = <<>>
    /\ repo = <<>>
    /\ walk = 0
    /\ structure = NoStructure

\* the result of a call is recorded, an exception ends the run
NormalizeEnd(r) ==
    IF r.raised
    THEN pc' = "raised" /\ UNCHANGED <<mermaid_code, history>>
    ELSE /\ pc' = (IF pc = "input" THEN "once" ELSE "twice")
         /\ mermaid_code' = r.value
         /\ history' = Append(history, r.value)

\* mermaid_code = fix_mermaid_syntax(mermaid_code)
Normalize ==
    /\ pc \in {"input", "once"}
    /\ NormalizeEnd(fix_mermaid_syntax(mermaid_code))
    /\ UNCHANGED <<service, tmp, tree_txt, llm_output, response, stages,
                 repo, walk, structure>>

NextNormalizer == Normalize

SpecNormalizer == InitNormalizer /\ [][NextNormalizer]_vars

(***************************************************************************)
(* validate_mermaid_nodes on its own: a diagram text and a tree text.      *)
(***************************************************************************)
\* the lines a diagram given to validate_mermaid_nodes is made of
ValidatorScript ==
  << <<"f", "l", "o", "w", "c", "h", "a", "r", "t", " ", "T", "D">>,   \* 'flowchart TD'
     <<" ", " ", " ", " ", "A", "[", "d", "r", "i", "v", "e", "r", "s", "]">>,   \* '    A[drivers]'
     <<" ", " ", " ", " ", "A", "[", "d", "r", "i", "v", "e", "r", "s", "]", "-", "-", ">", "D", "[", "C", "a", "c", "h", "e", "]">>,   \* '    A[drivers]-->D[Cache]'
     <<" ", " ", " ", " ", "x", "-", "-", ">", "d", "b">>,   \* '    x-->db'
     <<" ", " ", " ", " ", "D", "[", "D", "a", "t", "a", "b", "a", "s", "e", "]">>,   \* '    D[Database]'
     <<" ", " ", " ", " ", "B", "[", "p", "a", "y", "m", "e", "n", "t", "s", "]">> >>   \* '    B[payments]'

\* the entries the tree text given to validate_mermaid_nodes is made of
ValidatorEntries ==
  << <<"d", "r", "i", "v", "e", "r", "s", "/">>,   \* 'drivers/'
     <<"p", "a", "y", "m", "e", "n", "t", "s", "/">>,   \* 'payments/'
     <<"d", "a", "t", "a", "b", "a", "s", "e", "/">> >>   \* 'database/'

\* the most lines of ValidatorScript in one diagram
MaxValidatorLines == 4
\* the most entries of ValidatorEntries in one tree text
MaxValidatorEntries == 2

ValidatorDiagrams ==
    {join(sel, S_nl) : sel \in Selections(ValidatorScript, MaxValidatorLines)}

ValidatorTrees ==
    {repo_tree_text(entries) : entries \in Selections(ValidatorEntries, MaxValidatorEntries)}

InitValidator ==
    /\ pc = "input"
    /\ mermaid_code \in ValidatorDiagrams
    /\ tree_txt \in ValidatorTrees
    /\ service = "ec2"
    /\ tmp = FALSE
    /\ llm_output = <<>>
    /\ response = NoResponse
    /\ stages = <<>>
    /\ history = <<>>
    /\ repo = <<>>
    /\ walk = 0
    /\ structure = NoStructure

\* mermaid_code = validate_mermaid_nodes(mermaid_code, tree_txt); history keeps the
\* argument and the result
Validate ==
    /\ pc = "input"
    /\ \E items_order \in ItemOrders(tree_txt) :
        /\ mermaid_code' = validate_mermaid_nodes(mermaid_code, tree_txt, items_order)
        /\ history' = <<mermaid_code, mermaid_code'>>
    /\ pc' = "validated"
    /\ UNCHANGED <<service, tmp, tree_txt, llm_output, response, stages,
                 repo, walk, structure>>

NextValidator == Validate

SpecValidator == InitValidator /\ [][NextValidator]_vars

(***************************************************************************)
(* extract_mermaid_code on its own, followed by fix_mermaid_syntax.        *)
(***************************************************************************)
\* the parts a text with one fenced block is made of: prose, the opening fence line,
\* indentation, the diagram, trailing whitespace, the closing fence, prose
Prefixes ==
  << <<>>,   \* ''
     <<"H", "e", "r", "e", " ", "i", "s", " ", "t", "h", "e", " ", "d", "i", "a", "g", "r", "a", "m", ":", "\n">>,   \* 'Here is the diagram:\n'
     <<"N", "o", "t", "e", "\n", "\n">> >>   \* 'Note\n\n'

OpeningFences ==
  << <<BACKTICK, BACKTICK, BACKTICK, "m", "e", "r", "m", "a", "i", "d", "\n">>,   \* '(fence)mermaid\n'
     <<BACKTICK, BACKTICK, BACKTICK, "\n">>,   \* '(fence)\n'
     <<BACKTICK, BACKTICK, BACKTICK, "m", "e", "r", "m", "a", "i", "d", " ", "\n">> >>   \* '(fence)mermaid \n'

Indentations ==
  << <<" ", " ">>,   \* '  '
     <<>>,   \* ''
     <<"\n">> >>   \* '\n'

FencedDiagrams ==
  << <<"f", "l", "o", "w", "c", "h", "a", "r", "t", " ", "T", "D", "\n", " ", " ", " ", " ", "A", "[", "d", "r", "i", "v", "e", "r", "s", "]">>,   \* 'flowchart TD\n    A[drivers]'
     <<"g", "r", "a", "p", "h", " ", "L", "R", "\n", " ", " ", " ", " ", "A", "[", "d", "r", "i", "v", "e", "r", "s", "]", " ", "-", "-", ">", " ", "B", "[", "p", "a", "y", "m", "e", "n", "t", "s", "]">>,   \* 'graph LR\n    A[drivers] --> B[payments]'
     <<"f", "l", "o", "w", "c", "h", "a", "r", "t", " ", "L", "R", "\n", " ", " ", " ", " ", "A", " ", "-", "-", ">", " ", "B", "\n", "\n", " ", " ", " ", " ", "B", " ", "-", "-", ">", " ", "C">> >>   \* 'flowchart LR\n    A --> B\n\n    B --> C'

Trailers ==
  << <<"\n">>,   \* '\n'
     <<>>,   \* ''
     <<" ", "\n">> >>   \* ' \n'

Suffixes ==
  << <<>>,   \* ''
     <<"\n", "D", "o", "n", "e", ".">>,   \* '\nDone.'
     <<"\n", "\n", "m", "e", "r", "m", "a", "i", "d", "\n">> >>   \* '\n\nmermaid\n'

\* texts without a fence and without a header keyword
PlainTexts ==
  << <<"h", "e", "l", "l", "o">>,   \* 'hello'
     <<"h", "e", "l", "l", "o", " ", "(", "w", "o", "r", "l", "d", ")">>,   \* 'hello (world)'
     <<" ", " ", "h", "e", "l", "l", "o", "\n">>,   \* '  hello\n'
     <<"x", "{", "y", "}">>,   \* 'x{y}'
     <<"A", "[", "d", "r", "i", "v", "e", "r", "s", "]">>,   \* 'A[drivers]'
     <<"a", "]">>,   \* 'a]'
     <<"s", "e", "e", ":", " ", "A", " ", "-", "-", ">", " ", "B">>,   \* 'see: A --> B'
     <<"-", "-", ">", " ", "B">> >>   \* '--> B'

\* texts without a fence and without a header that a pattern matches, for the line
\* scan: a header keyword line, diagram lines, single and double blank lines
ScanTexts ==
  <<
     <<"f", "l", "o", "w", "c", "h", "a", "r", "t", " ", "L", "R", "\n", "A", "[", "x", "]", "\n", "B", "[", "y", "]", "\n", "\n", "C", "[", "z", "]">>,   \* 'flowchart LR\nA[x]\nB[y]\n\nC[z]'
     <<"f", "l", "o", "w", "c", "h", "a", "r", "t", " ", "L", "R", "\n", "A", "[", "x", "]", "\n", "B", "[", "y", "]", "\n", "\n", "\n", "C", "[", "z", "]">>,   \* 'flowchart LR\nA[x]\nB[y]\n\n\nC[z]'
     <<"I", "n", "t", "r", "o", "\n", "g", "r", "a", "p", "h", " ", "L", "R", "\n", "\n", " ", " ", "A", "[", "x", "]", "\n", " ", " ", "B", "[", "y", "]">>,   \* 'Intro\ngraph LR\n\n  A[x]\n  B[y]'
     <<"g", "r", "a", "p", "h", " ", "L", "R", "\n", "A", "[", "x", "]", ";", "\n", "B", "[", "y", "]", ";", "\n", "C", "[", "z", "]", ";", "\n", "D", "[", "w", "]", ";">>,   \* 'graph LR\nA[x];\nB[y];\nC[z];\nD[w];'
     <<"I", "n", "t", "r", "o", "\n", "\n", "f", "l", "o", "w", "c", "h", "a", "r", "t", " ", "L", "R", "\n", " ", " ", "A", " ", "-", "-", ">", " ", "B", "\n", " ", " ", "B", " ", "-", "-", ">", " ", "C", "\n", "\n", "\n", "N", "o", "t", "e", "s", "\n", "\n", "C", "[", "z", "]">>,   \* 'Intro\n\nflowchart LR\n  A --> B\n  B --> C\n\n\nNotes\n\nC[z]'
     <<"s", "e", "q", "u", "e", "n", "c", "e", "D", "i", "a", "g", "r", "a", "m", "\n", "A", "[", "x", "]">> >>   \* 'sequenceDiagram\nA[x]'

\* the number of alternatives of each part that the texts draw from
MaxAlternatives == 2

Range(seq, max) == {seq[i] : i \in 1..(IF Len(seq) < max THEN Len(seq) ELSE max)}

FencedTexts ==
    {prefix \o opener \o lead \o diagram \o trail \o S_fence \o suffix :
        prefix \in Range(Prefixes, MaxAlternatives),
        opener \in Range(OpeningFences, MaxAlternatives),
        lead \in Range(Indentations, MaxAlternatives),
        diagram \in Range(FencedDiagrams, MaxAlternatives),
        trail \in Range(Trailers, MaxAlternatives),
        suffix \in Range(Suffixes, MaxAlternatives)}

ExtractorTexts ==
    FencedTexts \cup Range(PlainTexts, Len(PlainTexts)) \cup Range(ScanTexts, Len(ScanTexts))

InitExtractor ==
    /\ pc = "input"
    /\ service \in {"ec2", "api"}
    /\ llm_output \in ExtractorTexts
    /\ mermaid_code = <<>>
    /\ tmp = FALSE
    /\ tree_txt = <<>>
    /\ response = NoResponse
    /\ stages = <<>>
    /\ history = <<>>
    /\ repo = <<>>
    /\ walk = 0
    /\ structure = NoStructure

\* mermaid_code = extract_mermaid_code(llm_output), of the service's own module
ExtractDiagram ==
    /\ pc = "input"
    /\ mermaid_code' = (IF service = "ec2" THEN extract_mermaid_code(llm_output)
                        ELSE processor_extract_mermaid_code(llm_output))
    /\ history' = <<mermaid_code'>>
    /\ pc' = "extracted"
    /\ UNCHANGED <<service, tmp, tree_txt, llm_output, response, stages,
                 repo, walk, structure>>

NormalizeExtractedEnd(r) ==
    IF r.raised
    THEN pc' = "raised" /\ UNCHANGED <<mermaid_code, history>>
    ELSE /\ pc' = "normalized"
         /\ mermaid_code' = r.value
         /\ history' = Append(history, r.value)

\* ec2-service: mermaid_code = fix_mermaid_syntax(mermaid_code) of the extracted text
NormalizeExtracted ==
    /\ pc = "extracted" /\ service = "ec2"
    /\ NormalizeExtractedEnd(fix_mermaid_syntax(mermaid_code))
    /\ UNCHANGED <<service, tmp, tree_txt, llm_output, response, stages,
                 repo, walk, structure>>

NextExtractor == ExtractDiagram \/ NormalizeExtracted

SpecExtractor == InitExtractor /\ [][NextExtractor]_vars

(***************************************************************************)
(* extract_repository_structure (src/extractor.py): the walk of a checkout.*)
(***************************************************************************)
MAX_TREE_LINES == 300
MAX_FILE_SIZE_KB == 40
\* the most files listed per directory
MaxListedFiles == 20
\* the default of the parameter max_depth
max_depth == 3

ignore_dirs ==
  << <<"n", "o", "d", "e", "_", "m", "o", "d", "u", "l", "e", "s">>,   \* 'node_modules'
     <<".", "v", "e", "n", "v">>,   \* '.venv'
     <<"v", "e", "n", "v">>,   \* 'venv'
     <<"e", "n", "v">>,   \* 'env'
     <<"d", "i", "s", "t">>,   \* 'dist'
     <<"b", "u", "i", "l", "d">>,   \* 'build'
     <<"_", "_", "p", "y", "c", "a", "c", "h", "e", "_", "_">>,   \* '__pycache__'
     <<".", "g", "i", "t">>,   \* '.git'
     <<".", "i", "d", "e", "a">>,   \* '.idea'
     <<".", "v", "s", "c", "o", "d", "e">>,   \* '.vscode'
     <<".", "p", "y", "t", "e", "s", "t", "_", "c", "a", "c", "h", "e">>,   \* '.pytest_cache'
     <<".", "m", "y", "p", "y", "_", "c", "a", "c", "h", "e">>,   \* '.mypy_cache'
     <<"t", "a", "r", "g", "e", "t">>,   \* 'target'
     <<"b", "i", "n">>,   \* 'bin'
     <<"o", "b", "j">>,   \* 'obj'
     <<".", "g", "r", "a", "d", "l", "e">> >>   \* '.gradle'

ignore_files ==
  << <<".", "p", "y", "c">>,   \* '.pyc'
     <<".", "p", "y", "o">>,   \* '.pyo'
     <<".", "p", "y", "d">>,   \* '.pyd'
     <<".", "s", "o">>,   \* '.so'
     <<".", "d", "l", "l">>,   \* '.dll'
     <<".", "e", "x", "e">>,   \* '.exe'
     <<".", "d", "y", "l", "i", "b">> >>   \* '.dylib'

config_patterns ==
  << <<"p", "a", "c", "k", "a", "g", "e", ".", "j", "s", "o", "n">>,   \* 'package.json'
     <<"r", "e", "q", "u", "i", "r", "e", "m", "e", "n", "t", "s", ".", "t", "x", "t">>,   \* 'requirements.txt'
     <<"D", "o", "c", "k", "e", "r", "f", "i", "l", "e">>,   \* 'Dockerfile'
     <<"d", "o", "c", "k", "e", "r", "-", "c", "o", "m", "p", "o", "s", "e", ".", "y", "m", "l">>,   \* 'docker-compose.yml'
     <<"p", "o", "m", ".", "x", "m", "l">>,   \* 'pom.xml'
     <<"b", "u", "i", "l", "d", ".", "g", "r", "a", "d", "l", "e">>,   \* 'build.gradle'
     <<"C", "a", "r", "g", "o", ".", "t", "o", "m", "l">>,   \* 'Cargo.toml'
     <<"g", "o", ".", "m", "o", "d">>,   \* 'go.mod'
     <<"c", "o", "m", "p", "o", "s", "e", "r", ".", "j", "s", "o", "n">>,   \* 'composer.json'
     <<"G", "e", "m", "f", "i", "l", "e">>,   \* 'Gemfile'
     <<"P", "i", "p", "f", "i", "l", "e">>,   \* 'Pipfile'
     <<".", "e", "n", "v", ".", "e", "x", "a", "m", "p", "l", "e">>,   \* '.env.example'
     <<"M", "a", "k", "e", "f", "i", "l", "e">>,   \* 'Makefile'
     <<"C", "M", "a", "k", "e", "L", "i", "s", "t", "s", ".", "t", "x", "t">> >>   \* 'CMakeLists.txt'

\* the patterns whose files are also recorded in config_files
manifest_patterns ==
  << <<"p", "o", "m", ".", "x", "m", "l">>,   \* 'pom.xml'
     <<"b", "u", "i", "l", "d", ".", "g", "r", "a", "d", "l", "e">>,   \* 'build.gradle'
     <<"p", "a", "c", "k", "a", "g", "e", ".", "j", "s", "o", "n">>,   \* 'package.json'
     <<"g", "o", ".", "m", "o", "d">> >>   \* 'go.mod'

S_truncated == <<".", ".", ".", " ", "(", "t", "r", "u", "n", "c", "a", "d", "o", ")">>
\* the marker of a directory with more than 20 files, written without its non-ASCII characters
S_more_files == <<".", ".", ".", " ", "(", "m", "a", "s", " ", "a", "r", "c", "h", "i", "v", "o", "s", ")">>

Elements(seq) == {seq[i] : i \in 1..Len(seq)}

\* the order of the code points of the characters that occur in names
CodePoints ==
    <<"-", ".">> \o DecimalDigits \o UpperLetters \o <<"_">> \o LowerLetters

CodePoint(c) == CHOOSE i \in 1..Len(CodePoints) : CodePoints[i] = c

\* s < t for two str
RECURSIVE StrLess(_, _)
StrLess(s, t) ==
    IF t = <<>> THEN FALSE
    ELSE IF s = <<>> THEN TRUE
    ELSE IF s[1] # t[1] THEN CodePoint(s[1]) < CodePoint(t[1])
    ELSE StrLess(Tail(s), Tail(t))

\* min(names)
MinName(names) == CHOOSE s \in names : \A t \in names : t = s \/ StrLess(s, t)

\* the rest of sorted(names) once its least name is known
RECURSIVE SortedFrom(_, _)
SortedFrom(names, least) ==
    IF names = {least} THEN <<least>>
    ELSE <<least>> \o SortedFrom(names \ {least}, MinName(names \ {least}))

\* sorted(names) of a set of str
sorted(names) == IF names = {} THEN <<>> ELSE SortedFrom(names, MinName(names))

\* the files [name, size, content] of a directory in the order of their names
FilesInOrder(files, names) ==
    [i \in 1..Len(names) |-> CHOOSE f \in files : f.name = names[i]]

\* "  " * n
RECURSIVE Indent(_)
Indent(n) == IF n = 0 THEN <<>> ELSE S_two_spaces \o Indent(n - 1)

\* d not in ignore_dirs and not d.startswith(".")
KeptDir(d) == d \notin Elements(ignore_dirs) /\ ~startswith(d, <<".">>)

\* f.startswith(".") or any(f.endswith(ext) for ext in ignore_files)
SkippedFile(f) ==
    startswith(f, <<".">>) \/ \E ext \in Elements(ignore_files) : endswith(f, ext)

\* os.walk never reaches a directory below a filtered directory or below a
\* directory deeper than max_depth (dirs.clear()); path holds the names from the root
Pruned(path) ==
    \/ \E i \in 1..Len(path) : ~KeptDir(path[i])
    \/ Len(path) > max_depth + 1

\* the position of the next directory that os.walk yields from position i on,
\* Len(repo) + 1 when the walk is over
NextYield(checkout, i) ==
    IF \A j \in i..Len(checkout) : Pruned(checkout[j].path) THEN Len(checkout) + 1
    ELSE CHOOSE j \in i..Len(checkout) :
            /\ ~Pruned(checkout[j].path)
            /\ \A k \in i..(j - 1) : Pruned(checkout[k].path)

\* os.path.relpath(file_path, repo_path)
relpath(path, name) == join(path \o <<name>>, <<"/">>)

\* the first pattern of patterns that the file name equals or starts with,
\* compared in lower case: 0 if none
RECURSIVE FirstConfigPattern(_, _)
FirstConfigPattern(name_lower, i) ==
    IF i > Len(config_patterns) THEN 0
    ELSE IF startswith(name_lower, lower(config_patterns[i])) THEN i
    ELSE FirstConfigPattern(name_lower, i + 1)

\* structure["key_files"][rel_path] = content, a dict in insertion order
PutKeyFile(key_files, rel_path, content) ==
    IF \E i \in 1..Len(key_files) : key_files[i].path = rel_path
    THEN [i \in 1..Len(key_files) |->
             IF key_files[i].path = rel_path
             THEN [path |-> rel_path, content |-> content] ELSE key_files[i]]
    ELSE Append(key_files, [path |-> rel_path, content |-> content])

\* the body of `for pattern in config_patterns` for the pattern p that matched
\* (0: none matched): the file is read when it is small enough
CaptureMatched(st, rel_path, f, p) ==
    IF p = 0 \/ f.size > MAX_FILE_SIZE_KB * 1024 THEN st
    ELSE [st EXCEPT
            !.key_files = PutKeyFile(@, rel_path, f.content),
            !.config_files = IF config_patterns[p] \in Elements(manifest_patterns)
                             THEN Append(@, rel_path) ELSE @]

\* one listed file: its line, then the capture
ListFile(st, path, f) ==
    CaptureMatched([st EXCEPT !.lines = Append(@, Indent(Len(path) + 1) \o f.name)],
                   relpath(path, f.name), f, FirstConfigPattern(lower(f.name), 1))

\* for f in sorted(files), with file_count
RECURSIVE ListFiles(_, _, _, _)
ListFiles(st, path, files, file_count) ==
    IF files = <<>> THEN st
    ELSE IF file_count >= MaxListedFiles
    THEN [st EXCEPT !.lines = Append(@, Indent(Len(path) + 1) \o S_more_files)]
    ELSE IF SkippedFile(Head(files).name)
    THEN ListFiles(st, path, Tail(files), file_count)
    ELSE ListFiles(ListFile(st, path, Head(files)), path, Tail(files), file_count + 1)

\* modules.add(os.path.basename(root)) for a directory at depth 1; modules is kept
\* as the set in structure until the end of the walk
AddModule(st, path) ==
    IF Len(path) = 1 THEN [st EXCEPT !.module_set = @ \cup {path[1]}] ELSE st

\* the line of the directory, then its files
ListDirectory(st, dir) ==
    ListFiles(IF dir.path # <<>>
              THEN [st EXCEPT !.lines = Append(@, Indent(Len(dir.path))
                                                   \o dir.path[Len(dir.path)] \o <<"/">>)]
              ELSE st,
              dir.path, FilesInOrder(dir.files, sorted({f.name : f \in dir.files})), 0)

\* one iteration of `for root, dirs, files in os.walk(repo_path)` for the directory
\* at position i: too deep (continue), out of budget (the marker, break), or listed
WalkStep(st, dir, i) ==
    IF Len(dir.path) > max_depth
    THEN structure' = st /\ walk' = i + 1 /\ pc' = pc
    ELSE IF Len(st.lines) >= MAX_TREE_LINES
    THEN /\ structure' = [st EXCEPT
                             !.lines = Append(@, Indent(Len(dir.path) + 1) \o S_truncated)]
         /\ walk' = i
         /\ pc' = "break"
    ELSE structure' = ListDirectory(st, dir) /\ walk' = i + 1 /\ pc' = pc

WalkAt(i) == WalkStep(AddModule(structure, repo[i].path), repo[i], i)

WalkDirectory ==
    /\ pc = "walk"
    /\ NextYield(repo, walk) <= Len(repo)
    /\ WalkAt(NextYield(repo, walk))
    /\ UNCHANGED <<service, tmp, tree_txt, llm_output, mermaid_code, response, stages,
                   history, repo>>

\* after the loop: structure["tree"] and structure["modules"]
FinishWalk ==
    /\ \/ pc = "break"
       \/ pc = "walk" /\ NextYield(repo, walk) > Len(repo)
    /\ structure' = [structure EXCEPT !.tree = join(structure.lines, S_nl),
                                      !.modules = sorted(structure.module_set)]
    /\ pc' = "scanned"
    /\ UNCHANGED <<service, tmp, tree_txt, llm_output, mermaid_code, response, stages,
                   history, repo, walk>>

\* the files of the checkouts
S_pom_xml == <<"p", "o", "m", ".", "x", "m", "l">>
S_readme == <<"R", "E", "A", "D", "M", "E", ".", "m", "d">>
S_manifest_text == <<"<", "d", "e", "p", "e", "n", "d", "e", "n", "c", "i", "e", "s", ">">>

File(name, size, content) == [name |-> name, size |-> size, content |-> content]

\* the k-th plain file of a directory: 'f01', 'f02', ...
PlainFile(k) ==
    File(<<"f", DecimalDigits[(k \div 10) + 1], DecimalDigits[(k % 10) + 1]>>, 120, <<"x">>)

\* the i-th directory under the root: 'm01', 'm02', ...
ModuleName(i) == <<"m", DecimalDigits[(i \div 10) + 1], DecimalDigits[(i % 10) + 1]>>

RootDirectory ==
    [path |-> <<>>,
     files |-> {File(S_readme, 900, <<"x">>), File(S_pom_xml, 700, S_manifest_text)}]

\* a checkout with ndirs directories under the root, each with nfiles plain files
\* and a pom.xml, which sorts after them
FlatCheckout(ndirs, nfiles) ==
    <<RootDirectory>> \o
    [i \in 1..ndirs |->
        [path |-> <<ModuleName(i)>>,
         files |-> {PlainFile(k) : k \in 1..nfiles}
                   \cup {File(S_pom_xml, 700, S_manifest_text)}]]

\* a checkout with nested, filtered and too deep directories, in the order of os.walk
NestedCheckout ==
    <<
       [path |-> <<>>,
        files |-> {File(<<"R", "E", "A", "D", "M", "E", ".", "m", "d">>, 900, <<"x">>), File(<<"D", "o", "c", "k", "e", "r", "f", "i", "l", "e", ".", "d", "e", "v">>, 100, <<"x">>), File(<<"l", "i", "b", ".", "s", "o">>, 100, <<"x">>), File(<<".", "e", "n", "v", ".", "e", "x", "a", "m", "p", "l", "e">>, 100, <<"x">>), File(<<"p", "a", "c", "k", "a", "g", "e", ".", "j", "s", "o", "n">>, 50000, <<"x">>)}],
       [path |-> <<<<"s", "r", "c">>>>,
        files |-> {File(<<"m", "a", "i", "n", ".", "p", "y">>, 100, <<"x">>)}],
       [path |-> <<<<"s", "r", "c">>, <<"c", "o", "r", "e">>>>,
        files |-> {File(<<"g", "o", ".", "m", "o", "d">>, 100, <<"x">>)}],
       [path |-> <<<<"s", "r", "c">>, <<"c", "o", "r", "e">>, <<"d", "e", "e", "p">>>>,
        files |-> {}],
       [path |-> <<<<"s", "r", "c">>, <<"c", "o", "r", "e">>, <<"d", "e", "e", "p">>, <<"d", "e", "e", "p", "e", "r">>>>,
        files |-> {File(<<"M", "a", "k", "e", "f", "i", "l", "e">>, 100, <<"x">>)}],
       [path |-> <<<<"s", "r", "c">>, <<"c", "o", "r", "e">>, <<"d", "e", "e", "p">>, <<"d", "e", "e", "p", "e", "r">>, <<"d", "e", "e", "p", "e", "s", "t">>>>,
        files |-> {File(<<"p", "o", "m", ".", "x", "m", "l">>, 100, <<"x">>)}],
       [path |-> <<<<"n", "o", "d", "e", "_", "m", "o", "d", "u", "l", "e", "s">>>>,
        files |-> {File(<<"p", "a", "c", "k", "a", "g", "e", ".", "j", "s", "o", "n">>, 100, <<"x">>)}],
       [path |-> <<<<"n", "o", "d", "e", "_", "m", "o", "d", "u", "l", "e", "s">>, <<"x">>>>,
        files |-> {}],
       [path |-> <<<<".", "g", "i", "t", "h", "u", "b">>>>,
        files |-> {File(<<"M", "a", "k", "e", "f", "i", "l", "e">>, 100, <<"x">>)}],
       [path |-> <<<<"A", "P", "I">>>>,
        files |-> {File(<<"P", "i", "p", "f", "i", "l", "e">>, 100, <<"x">>)}],
       [path |-> <<<<"A", "p", "i">>>>,
        files |-> {File(<<"b", "u", "i", "l", "d", ".", "g", "r", "a", "d", "l", "e", ".", "k", "t", "s">>, 100, <<"d", "e", "p", "e", "n", "d", "e", "n", "c", "i", "e", "s">>)}]
    >>

\* the most directories under the root of a checkout
MaxDirs == 16

\* the numbers of plain files per directory: few, one less and one more than listed
FileCounts == {1, MaxListedFiles - 1, MaxListedFiles + 1}

ScannerCheckouts ==
    {FlatCheckout(ndirs, nfiles) : ndirs \in 0..MaxDirs, nfiles \in FileCounts}
        \cup {NestedCheckout}

InitScanner ==
    /\ pc = "walk"
    /\ repo \in ScannerCheckouts
    /\ walk = 1
    /\ structure = NoStructure
    /\ service = "api"
    /\ tmp = TRUE
    /\ tree_txt = <<>>
    /\ llm_output = <<>>
    /\ mermaid_code = <<>>
    /\ response = NoResponse
    /\ stages = <<>>
    /\ history = <<>>

NextScanner == WalkDirectory \/ FinishWalk

SpecScanner == InitScanner /\ [][NextScanner]_vars

(***************************************************************************)
(* generate_mermaid_diagram of src/processor.py: the list of components    *)
(* that the prompt names, built from the structure of a scanned checkout.  *)
(***************************************************************************)
\* the characters of the tree text that the prompt keeps: structure["tree"][:2000]
TreeSummaryChars == 2000

\* the lines of the tree summary that are read: split('\n')[:50]
TreeSummaryLines == 50

\* the key files that are read: list(structure["key_files"].keys())[:5]
KeyFilesRead == 5

\* seq[:n]
Take(seq, n) == SubSeq(seq, 1, IF Len(seq) < n THEN Len(seq) ELSE n)

\* components_list.append(name); seen.add(name.lower())
AddComponent(acc, name) ==
    [components_list |-> Append(acc.components_list, name),
     seen |-> acc.seen \cup {lower(name)}]

\* for module in modules: the module itself is looked up in seen, which holds
\* lower-case names
RECURSIVE ModuleComponents(_, _)
ModuleComponents(modules, acc) ==
    IF modules = <<>> THEN acc
    ELSE IF Head(modules) # <<>> /\ Head(modules) \notin acc.seen
    THEN ModuleComponents(Tail(modules), AddComponent(acc, Head(modules)))
    ELSE ModuleComponents(Tail(modules), acc)

\* dir_name = line.split('/')[0].strip()
dir_name(line) == strip(split(line, "/")[1])

\* the tests a stripped line of the tree summary passes before its directory name
\* is added
IsTreeComponent(acc, line) ==
    /\ line # <<>> /\ ~startswith(line, <<".">>) /\ contains(line, <<"/">>)
    /\ dir_name(line) # <<>>
    /\ lower(dir_name(line)) \notin acc.seen
    /\ Len(dir_name(line)) > 1

\* for line in tree_summary.split('\n')[:50]
RECURSIVE TreeComponents(_, _)
TreeComponents(lines, acc) ==
    IF lines = <<>> THEN acc
    ELSE IF IsTreeComponent(acc, strip(Head(lines)))
    THEN TreeComponents(Tail(lines), AddComponent(acc, dir_name(strip(Head(lines)))))
    ELSE TreeComponents(Tail(lines), acc)

\* os.path.basename(file_path)
basename(file_path) == split(file_path, "/")[Len(split(file_path, "/"))]

\* for file_path in list(structure["key_files"].keys())[:5]
RECURSIVE KeyFileComponents(_, _)
KeyFileComponents(key_files, acc) ==
    IF key_files = <<>> THEN acc
    ELSE IF /\ basename(Head(key_files).path) # <<>>
            /\ lower(basename(Head(key_files).path)) \notin acc.seen
    THEN KeyFileComponents(Tail(key_files), AddComponent(acc, basename(Head(key_files).path)))
    ELSE KeyFileComponents(Tail(key_files), acc)

\* components_list of generate_mermaid_diagram(st)
components_list(st) ==
    KeyFileComponents(
        Take(st.key_files, KeyFilesRead),
        TreeComponents(
            Take(split(Take(st.tree, TreeSummaryChars), "\n"), TreeSummaryLines),
            ModuleComponents(st.modules, [components_list |-> <<>>, seen |-> {}])
        )).components_list

\* directories of a checkout, in the order of the walk; a group is a directory
\* with the directories below it
ComponentGroups ==
  << << [path |-> <<<<"A", "P", "I">>>>,
         files |-> {File(<<"P", "i", "p", "f", "i", "l", "e">>, 100, <<"x">>)}] >>,
     << [path |-> <<<<"A", "p", "i">>>>,
         files |-> {File(S_pom_xml, 700, S_manifest_text)}] >>,
     << [path |-> <<<<"s", "r", "c">>>>,
         files |-> {File(<<"m", "a", "i", "n", ".", "p", "y">>, 100, <<"x">>)}],
        [path |-> <<<<"s", "r", "c">>, <<"a", "p", "i">>>>,
         files |-> {File(<<"g", "o", ".", "m", "o", "d">>, 100, <<"x">>)}] >>,
     << [path |-> <<<<"d", "o", "c", "s">>>>,
         files |-> {File(S_readme, 900, <<"x">>)}] >>,
     << [path |-> <<<<"w">>>>,
         files |-> {File(<<"M", "a", "k", "e", "f", "i", "l", "e">>, 100, <<"x">>)}] >> >>

\* the directories of the groups chosen, from group i on
RECURSIVE ChosenGroups(_, _)
ChosenGroups(chosen, i) ==
    IF i > Len(ComponentGroups) THEN <<>>
    ELSE (IF i \in chosen THEN ComponentGroups[i] ELSE <<>>) \o ChosenGroups(chosen, i + 1)

ComponentCheckouts ==
    {<<RootDirectory>> \o ChosenGroups(chosen, 1) : chosen \in SUBSET (1..Len(ComponentGroups))}

InitComponents ==
    /\ pc = "walk"
    /\ repo \in ComponentCheckouts
    /\ walk = 1
    /\ structure = NoStructure
    /\ service = "api"
    /\ tmp = TRUE
    /\ tree_txt = <<>>
    /\ llm_output = <<>>
    /\ mermaid_code = <<>>
    /\ response = NoResponse
    /\ stages = <<>>
    /\ history = <<>>

\* generate_mermaid_diagram(structure), up to the list of components of the prompt
BuildComponents ==
    /\ pc = "scanned"
    /\ history' = components_list(structure)
    /\ pc' = "prompt"
    /\ UNCHANGED <<service, tmp, tree_txt, llm_output, mermaid_code, response, stages,
                 repo, walk, structure>>

NextComponents == WalkDirectory \/ FinishWalk \/ BuildComponents

SpecComponents == InitComponents /\ [][NextComponents]_vars

(***************************************************************************)
(* Properties.                                                             *)
(***************************************************************************)
Lines(text) == split(text, "\n")

LineSet(text) == {Lines(text)[i] : i \in 1..Len(Lines(text))}

\* the texts between a '[' and the next ']' of a line, from position i on
RECURSIVE LabelsFrom(_, _)
LabelsFrom(line, i) ==
    LET o == find(line, <<"[">>, i)
        c == IF o = 0 THEN 0 ELSE find(line, <<"]">>, o + 1)
    IN  IF o = 0 \/ c = 0 THEN {}
        ELSE {SubSeq(line, o + 1, c - 1)} \cup LabelsFrom(line, c + 1)

\* C1: fix_mermaid_syntax is idempotent: applied to its own result, it returns that
\* result character for character.
C1_Idempotent == pc = "twice" => history[2] = history[1]

\* C2: no line of the text validate_mermaid_nodes returns contains, in any case of
\* letters, a term of the forbidden list.
C2_NoForbiddenTerm ==
    pc = "validated" => \A line \in LineSet(mermaid_code) : ~HasForbidden(line)

\* the fallback diagram is returned: fewer than 3 lines are left and the tree has items
FallbackTaken ==
    /\ Len(ValidLines(history[1], structure_items(tree_txt))) < MinValidLines
    /\ structure_items(tree_txt) # {}

\* the label, lowercased and without separators, is part of a token or holds one
LabelMatches(label, items) ==
    \/ \E item \in items :
          \/ contains(RemoveSeparators(item), RemoveSeparators(lower(label)))
          \/ contains(RemoveSeparators(lower(label)), RemoveSeparators(item))
    \/ NodeExists(lower(strip(label)), items)

\* C3: unless the fallback diagram is returned, every bracketed label on every line
\* validate_mermaid_nodes returns matches a token of the tree text.
C3_SurvivingLabelsMatch ==
    (pc = "validated" /\ ~FallbackTaken) =>
        \A line \in LineSet(mermaid_code) :
            \A label \in LabelsFrom(line, 1) :
                LabelMatches(label, structure_items(tree_txt))

S_database_node == <<"D", "[", "D", "a", "t", "a", "b", "a", "s", "e", "]">>
S_database_edge == <<"A", " ", "-", "-", ">", " ", "D">>
S_database == <<"d", "a", "t", "a", "b", "a", "s", "e">>

\* the generator's diagram declares D[Database] and the edge 'A --> D', the scanned
\* repository has no entry of that name, and the chain of the three stages is done
ScenarioA ==
    /\ service = "ec2" /\ pc = "return"
    /\ contains(llm_output, S_database_node)
    /\ contains(llm_output, S_database_edge)
    /\ ~contains(lower(tree_txt), S_database)

\* an edge line with the identifier id on one of its sides
EdgeRefersTo(line, id) ==
    /\ contains(line, S_arrow)
    /\ Len(ArrowParts(line)) = 3
    /\ \E side \in {strip(ArrowParts(line)[1]), strip(ArrowParts(line)[3])} :
          side = id \/ startswith(side, id \o <<"[">>)

\* a node line of the generator text whose label is an entry of the tree text
RealNodeLine(line) ==
    /\ ~contains(line, S_arrow)
    /\ LabelsFrom(line, 1) # {}
    /\ \A label \in LabelsFrom(line, 1) :
          \E entry \in LineSet(tree_txt) : strip(entry) \in {label, label \o <<"/">>}

\* C4: after fix, validate, fix the diagram has the header, has neither the node
\* line of the unknown node nor an edge line that refers to its identifier, and
\* keeps every node line whose label is an entry of the tree.
C4_UnknownNodeAndEdgesRemoved ==
    ScenarioA =>
        /\ startswith(mermaid_code, S_flowchart)
        /\ \A line \in LineSet(mermaid_code) :
              ~contains(line, S_database_node) /\ ~EdgeRefersTo(line, <<"D">>)
        /\ \A line \in LineSet(llm_output) :
              RealNodeLine(line) =>
                  \E kept \in LineSet(mermaid_code) : strip(kept) = strip(line)

\* a header line followed by at least one node line
HeaderAndNode(diagram) ==
    /\ Len(Lines(diagram)) >= 2
    /\ startswith(Lines(diagram)[1], S_flowchart)
    /\ \E i \in 2..Len(Lines(diagram)) : HasNodeSyntax(Lines(diagram)[i])

\* C5: when fewer than 3 lines survive the filtering, validate_mermaid_nodes returns
\* a header line and at least one node line, whatever the tree text.
C5_FallbackFloor ==
    (/\ pc = "validated"
     /\ Len(ValidLines(history[1], structure_items(tree_txt))) < MinValidLines)
        => HeaderAndNode(mermaid_code)

\* C6: for a non-empty generator text no stage raises, so the request never ends
\* in the internal error that reports an uncaught exception.
C6_StagesNeverRaise ==
    llm_output # <<>> => response.detail # "Error interno"

\* 'flowchart' followed by a direction
CanonicalHeader(line) ==
    \E direction \in {S_TD, <<"T", "B">>, S_BT, S_LR, S_RL} :
        line = S_flowchart \o <<" ">> \o direction

\* C7: the diagram of every successful response has the canonical header line as
\* its first line, in both services.
C7_HeaderFirst ==
    response.status = 200 => CanonicalHeader(Lines(response.mermaid)[1])

\* C8: when the generation service returns an empty text, the request ends in a
\* failure and no diagram is returned, in both services.
C8_EmptyGenerationFails ==
    (/\ pc = "done"
     /\ \E i \in 1..Len(stages) : stages[i] = "extract"
     /\ llm_output = <<>>)
        => response.status # 200 /\ response.mermaid = <<>>

\* the positions of the fences of a text
FencePositions(text) == {i \in 1..Len(text) : MatchAt(text, S_fence, i)}

OpeningFence(text) == CHOOSE i \in FencePositions(text) : \A j \in FencePositions(text) : i <= j

ClosingFence(text) == CHOOSE i \in FencePositions(text) : \A j \in FencePositions(text) : i >= j

RECURSIVE SkipBlanks(_, _)
SkipBlanks(text, k) ==
    IF k <= Len(text) /\ text[k] \in {" ", "\t"} THEN SkipBlanks(text, k + 1) ELSE k

\* the position after the line of the opening fence (the fence, the optional tag
\* 'mermaid', blanks, the newline), 0 if the line has anything else
InnerStart(text) ==
    LET tag == OpeningFence(text) + Len(S_fence)
        k   == SkipBlanks(text, IF MatchAt(text, S_mermaid, tag)
                                THEN tag + Len(S_mermaid) ELSE tag)
    IN  IF k <= Len(text) /\ text[k] = "\n" THEN k + 1 ELSE 0

\* the characters between the line of the opening fence and the closing fence
BlockInner(text) == SubSeq(text, InnerStart(text), ClosingFence(text) - 1)

\* exactly one well-formed fenced block whose content starts with a header keyword
SingleFencedBlock(text) ==
    /\ Cardinality(FencePositions(text)) = 2
    /\ InnerStart(text) > 0
    /\ InnerStart(text) <= ClosingFence(text)
    /\ \E kw \in {S_flowchart, S_graph} : startswith(lstrip(BlockInner(text)), kw)

\* C9 (as amended): from a text with exactly one well-formed fenced block,
\* extract_mermaid_code returns the characters between the fences without their
\* leading and trailing whitespace, and nothing else is added or removed.
C9_InnerContentStripped ==
    (Len(history) >= 1 /\ SingleFencedBlock(llm_output))
        => history[1] = strip(BlockInner(llm_output))

\* a block whose content has leading indentation and a trailing newline was extracted
C9_Witness ==
    /\ pc = "extracted"
    /\ SingleFencedBlock(llm_output)
    /\ startswith(BlockInner(llm_output), S_two_spaces)
    /\ endswith(BlockInner(llm_output), S_nl)
    /\ mermaid_code = strip(BlockInner(llm_output))

\* C9 (as stated): extract_mermaid_code returns exactly the characters between the
\* fences, leading indentation and trailing whitespace included.
C9_ByteForByte ==
    (Len(history) >= 1 /\ SingleFencedBlock(llm_output))
        => history[1] = BlockInner(llm_output)

\* no fence and no header keyword on any line
NoFenceNoKeyword(text) ==
    /\ ~contains(text, S_fence)
    /\ \A kw \in {S_flowchart, S_graph} : ~contains(lower(text), kw)

\* C10: from a text without a fenced block and without a header keyword,
\* extract_mermaid_code returns the text unchanged and fix_mermaid_syntax of it is
\* the single-node placeholder diagram.
C10_RawTextThenPlaceholder ==
    (pc = "normalized" /\ NoFenceNoKeyword(llm_output))
        => history[1] = llm_output /\ history[2] = S_placeholder

\* the truncation marker, at any indentation
IsTruncationMarker(line) == strip(line) = S_truncated

\* C11: once the tree holds MAX_TREE_LINES lines, the only line that follows is
\* one truncation marker, so the tree never holds more than MAX_TREE_LINES lines
\* plus the marker; and a walk that stopped early has left the marker.
C11_BudgetHaltsListing ==
    /\ \A i \in 1..Len(structure.lines) :
          i > MAX_TREE_LINES =>
              i = MAX_TREE_LINES + 1 /\ IsTruncationMarker(structure.lines[i])
    /\ (pc = "scanned" /\ NextYield(repo, walk) <= Len(repo)) =>
          \E i \in 1..Len(structure.lines) : IsTruncationMarker(structure.lines[i])

\* C14: every directory at depth 1 that is neither ignored nor hidden is in the
\* modules list that extract_repository_structure returns.
C14_ModulesComplete ==
    pc = "scanned" =>
        \A i \in 1..Len(repo) :
            (Len(repo[i].path) = 1 /\ KeptDir(repo[i].path[1]))
                => repo[i].path[1] \in Elements(structure.modules)

KeyFilePaths == {structure.key_files[i].path : i \in 1..Len(structure.key_files)}

\* a file that key_files has to hold: not hidden, within the depth limit, named
\* like a manifest pattern and not larger than the size cap
IsKeyFile(dir, f) ==
    /\ ~Pruned(dir.path) /\ Len(dir.path) <= max_depth
    /\ ~startswith(f.name, <<".">>)
    /\ FirstConfigPattern(lower(f.name), 1) > 0
    /\ f.size <= MAX_FILE_SIZE_KB * 1024

\* C15: every such file has its entry in key_files under its path relative to the
\* root, whatever the number of files of its directory and the line budget; and
\* every path of config_files is a key of key_files.
C15_KeyFilesComplete ==
    pc = "scanned" =>
        /\ \A i \in 1..Len(repo) : \A f \in repo[i].files :
              IsKeyFile(repo[i], f) => relpath(repo[i].path, f.name) \in KeyFilePaths
        /\ Elements(structure.config_files) \subseteq KeyFilePaths

C13_StagesInOrder ==
    response.status = 200 =>
        stages = <<"scan", "generate", "extract", "fix", "validate", "fix">>

\* no pattern of either extract_mermaid_code can match: no fence, no 'TD' header,
\* no 'mermaid' tag
ScanApplies(text) ==
    /\ ~contains(text, S_fence)
    /\ ~contains(lower(text), <<"t", "d">>)
    /\ ~contains(lower(text), S_mermaid)

IsBlank(line) == strip(line) = <<>>

NotBlank(line) == ~IsBlank(line)

\* the first line that contains a header keyword, 0 if none
FirstKeywordLine(lines) ==
    LET ks == {k \in 1..Len(lines) : HasKeyword(lower(lines[k]), ProcessorKeywords)}
    IN  IF ks = {} THEN 0 ELSE CHOOSE k \in ks : \A j \in ks : k <= j

\* the first of two consecutive blank lines after line k, 0 if none
FirstDoubleBlank(lines, k) ==
    LET js == {j \in (k + 1)..(Len(lines) - 1) : IsBlank(lines[j]) /\ IsBlank(lines[j + 1])}
    IN  IF js = {} THEN 0 ELSE CHOOSE j \in js : \A i \in js : j <= i

\* the non-blank lines among lines a..b, stripped
DiagramLines(lines, a, b) ==
    SelectSeq([i \in 1..(b - a + 1) |-> strip(lines[a + i - 1])], NotBlank)

\* the diagram lines the scan has to return: from line k to the first two
\* consecutive blank lines, at line j, or to the end of the text when j = 0
ScannedUpTo(result, lines, k, j) ==
    IF j = 0
    THEN DiagramLines(Lines(result), 1, Len(Lines(result))) = DiagramLines(lines, k, Len(lines))
    ELSE Len(DiagramLines(lines, k, j - 1)) >= 3 =>
            DiagramLines(Lines(result), 1, Len(Lines(result))) = DiagramLines(lines, k, j - 1)

ScannedFrom(result, lines, k) ==
    k > 0 => ScannedUpTo(result, lines, k, FirstDoubleBlank(lines, k))

\* C16: when no pattern matches, the diagram that extract_mermaid_code returns is
\* made of the lines from the first header keyword line up to the first two
\* consecutive blank lines that follow three accumulated lines; a single blank
\* line does not end it, the lines after it are part of the diagram.
C16_ScanStopsAtTwoBlankLines ==
    (pc = "extracted" /\ ScanApplies(llm_output)) =>
        ScannedFrom(mermaid_code, Lines(llm_output), FirstKeywordLine(Lines(llm_output)))

\* the two sides of the first '-->' of a line, stripped
EdgeSides(line) ==
    LET a == find(line, S_arrow, 1)
    IN  << strip(SubSeq(line, 1, a - 1)), strip(SubSeq(line, a + 3, Len(line))) >>

\* an endpoint that is present and carries a label bracket
LabelledEndpoint(side) == side # <<>> /\ contains(side, <<"[">>)

\* C17: in the text fix_mermaid_syntax returns, every edge line has the arrow '-->'
\* with an endpoint on each side, and each endpoint carries a label bracket: a side
\* that came without one was rewritten to identifier[identifier], upper-case
\* identifiers included.
C17_EdgeSidesLabelled ==
    pc = "once" =>
        \A line \in LineSet(mermaid_code) :
            contains(line, S_arrow) =>
                /\ LabelledEndpoint(EdgeSides(line)[1])
                /\ LabelledEndpoint(EdgeSides(line)[2])

\* a header line: 'flowchart' and what follows it
HeaderLine(line) == startswith(line, S_flowchart)

\* an identifier followed by a label between brackets, after the indentation
NodeLine(line) ==
    \E pair \in {<<"[", "]">>, <<"(", ")">>, <<"{", "}">>} :
        LET o == find(line, <<pair[1]>>, 1)
        IN  /\ o > Len(S_indent) + 1
            /\ find(line, <<pair[2]>>, o + 1) > 0

\* source --> target, after the indentation
EdgeLine(line) ==
    /\ contains(line, S_arrow)
    /\ EdgeSides(line)[1] # <<>>
    /\ EdgeSides(line)[2] # <<>>

\* C18: every line of the text fix_mermaid_syntax returns is the header, a node
\* line or an edge line, and every line but the header starts with four spaces:
\* no free text and no unindented node line is left.
C18_OnlyDiagramLines ==
    pc = "once" =>
        \A line \in LineSet(mermaid_code) :
            \/ HeaderLine(line)
            \/ (startswith(line, S_indent) /\ (NodeLine(line) \/ EdgeLine(line)))

\* C19: the list of components has no two entries that are equal without regard
\* to letter case, whatever the structure, modules that differ only in letter
\* case included.
C19_NoCaseInsensitiveDuplicate ==
    pc = "prompt" =>
        \A i, j \in 1..Len(history) :
            lower(history[i]) = lower(history[j]) => i = j

====
